---- MODULE Spec2Model ----
(***************************************************************************)
(* kindled: the notes service of src/main.py.                              *)
(*                                                                         *)
(* The state is the MongoDB collection db.notes and the requests that are  *)
(* being handled.  Every request is an asyncio coroutine; a step of the    *)
(* model is everything a handler does up to and including one operation of *)
(* the collection (the code before its first `await` of the collection    *)
(* touches only the handler's locals, so it is taken together with that    *)
(* operation).  Text (names, titles, contents) is a sequence of one        *)
(* character strings, so that trimming, lower-casing, formatting a number  *)
(* and matching the collision pattern are computed as the code computes    *)
(* them.                                                                   *)
(***************************************************************************)
EXTENDS Integers, Sequences, FiniteSets, TLC

VARIABLES
    notes,      \* db.notes: the set of stored documents
    nextId,     \* the next ObjectId the store assigns
    pc,         \* per worker: where the create_note or list_notes it handles stands
    req,        \* per worker: the locals of that handler
    last,       \* the request that completed last, with its JSONResponse
    deleted     \* history: <<_id, unique_name, edit_code>> of every removed document

vars == <<notes, nextId, pc, req, last, deleted>>

-----------------------------------------------------------------------------
(* Bounds of the model *)

\* ObjectIds the store hands out: at most MaxDocs inserts in a behaviour
MaxDocs == 2

\* the coroutines that can be inside create_note (or list_notes) at the same
\* time; edit_note, delete_note and get_note make one call of the collection
\* each and need none
NumWorkers == 2

Workers == 1..NumWorkers

-----------------------------------------------------------------------------
(* Text *)

\* Python's None, as the value of a text field and as a missing document
None == "None"
NoneDoc == [none |-> TRUE]

\* None where a unique_name is expected: no text at all (no request of the
\* model carries the empty string as a name)
NoneName == <<>>

UpperChars == <<"A","B","C","D","E","F","G","H","I","J","K","L","M",
                "N","O","P","Q","R","S","T","U","V","W","X","Y","Z">>
LowerChars == <<"a","b","c","d","e","f","g","h","i","j","k","l","m",
                "n","o","p","q","r","s","t","u","v","w","x","y","z">>
DigitChars == <<"0","1","2","3","4","5","6","7","8","9">>

IsDigit(c) == \E i \in DOMAIN DigitChars : DigitChars[i] = c

LowerChar(c) ==
    IF \E i \in DOMAIN UpperChars : UpperChars[i] = c
    THEN LowerChars[CHOOSE i \in DOMAIN UpperChars : UpperChars[i] = c]
    ELSE c

\* str.lower()
Lower(s) == [i \in DOMAIN s |-> LowerChar(s[i])]

\* str(n) of a natural number
RECURSIVE Str(_)
Str(n) ==
    IF n < 10 THEN <<DigitChars[n + 1]>>
    ELSE Str(n \div 10) \o <<DigitChars[(n % 10) + 1]>>

\* the characters in code point order, as the collection compares strings
CodePoints == <<" ", "-">> \o DigitChars \o UpperChars \o LowerChars

Ord(c) == CHOOSE i \in DOMAIN CodePoints : CodePoints[i] = c

\* a <= b for strings, and for numbers
RECURSIVE TextLeq(_, _)
TextLeq(a, b) ==
    IF a = <<>> THEN TRUE
    ELSE IF b = <<>> THEN FALSE
    ELSE IF Head(a) = Head(b) THEN TextLeq(Tail(a), Tail(b))
    ELSE Ord(Head(a)) < Ord(Head(b))

IsSpace(c) == c \in {" ", "\t", "\n"}

\* str.strip(): pydantic's strip_whitespace
RECURSIVE Strip(_)
Strip(s) ==
    IF s = <<>> THEN s
    ELSE IF IsSpace(Head(s)) THEN Strip(Tail(s))
    ELSE IF IsSpace(s[Len(s)]) THEN Strip(SubSeq(s, 1, Len(s) - 1))
    ELSE s

-----------------------------------------------------------------------------
(* models.py *)

TitleMin == 1
TitleMax == 100
ContentMin == 1
ContentMax == 2000
EditCodeMin == 6
EditCodeMax == 64

\* Note(BaseModel): title and content are stripped and then measured, the
\* edit code is measured as given.  FALSE is pydantic's validation error.
NoteValid(body) ==
    /\ Len(Strip(body.title)) >= TitleMin
    /\ Len(Strip(body.title)) <= TitleMax
    /\ Len(Strip(body.content)) >= ContentMin
    /\ Len(Strip(body.content)) <= ContentMax
    /\ Len(body.edit_code) >= EditCodeMin
    /\ Len(body.edit_code) <= EditCodeMax

\* note.model_dump()
NoteDump(body) ==
    [title |-> Strip(body.title), content |-> Strip(body.content),
     edit_code |-> body.edit_code, unique_name |-> body.unique_name]

\* Query(20, ge=1, le=100), Query(0, ge=0), regex="^(asc|desc)$"
LimitMin == 1
LimitMax == 100
SkipMin == 0

ListQueryValid(query) ==
    /\ query.limit >= LimitMin
    /\ query.limit <= LimitMax
    /\ query.skip >= SkipMin
    /\ query.sort_order \in {"asc", "desc"}

\* DeleteNote(BaseModel)
DeleteNoteValid(body) ==
    /\ Len(body.edit_code) >= EditCodeMin
    /\ Len(body.edit_code) <= EditCodeMax

-----------------------------------------------------------------------------
(* Inputs *)

\* words of BIBLE_WORDS, and the draws <<word1, word2>> of random.choice the
\* model follows
BIBLE_WORDS == { <<"a","r","k">>, <<"e","v","e">> }

WordDraws == { <<w1, w2>> \in BIBLE_WORDS \X BIBLE_WORDS : w2 = <<"a","r","k">> }

EditCodes == {"abcdef", "secret1"}

\* title and content of a request body; the last one is blank once stripped
Texts ==
    { [title |-> <<"H","o","p","e">>, content |-> <<"a","m","e","n"," ">>],
      [title |-> <<" ","J","o","y"," ">>, content |-> <<"o","i","l">>],
      [title |-> <<" ">>, content |-> <<"o","i","l">>] }

\* the unique_name of a request's path
PathNames ==
    { <<"a","r","k","-","a","r","k">>,
      <<"a","r","k","-","a","r","k","-","1">>,
      <<"A","r","k","-","a","r","k">> }

\* the query parameters of GET /notes/ (q, date_from and date_to are left at
\* None); the first is the query without parameters
DefaultQuery ==
    [note_type |-> None, limit |-> 20, skip |-> 0, sort_by |-> "created_at",
     sort_order |-> "desc"]

ListQueries ==
    { DefaultQuery,
      [DefaultQuery EXCEPT !.note_type = "general"],
      [DefaultQuery EXCEPT !.limit = 1, !.skip = 1, !.sort_by = "title",
                           !.sort_order = "asc"] }

\* what the moderation service recommends, or "error" when the call raises
ModerationActions == {"keep", "remove", "error"}

-----------------------------------------------------------------------------
(* Helpers of main.py *)

\* is_illegal_content letting the request through when the moderation call
\* fails
is_illegal_content_fail_open(text, action) ==
    IF action \in {"block", "shadow_block", "remove"} THEN "True" ELSE "False"

\* is_illegal_content: "True" / "False" as returned, or "raise" when the
\* moderation client (or the missing credentials) raises
is_illegal_content(text, action) ==
    IF action = "error" THEN "raise"
    ELSE IF action \in {"block", "shadow_block", "remove"} THEN "True"
    ELSE "False"

\* f"{note_data['title']} {note_data['content']}"
text_to_check(note_data) == note_data.title \o <<" ">> \o note_data.content

\* ObjectId.generation_time: the timestamp part of the id, which several ids
\* share
IdsPerTick == 2
generation_time(id) == id \div IdsPerTick

\* doc.get(key)
DocGet(doc, key) == IF key \in DOMAIN doc THEN doc[key] ELSE None

\* a serializer that copies the whole document
serialize_doc_whole(doc) ==
    [k \in DOMAIN doc \cup {"id", "created_at", "type"} |->
        IF k = "id" THEN Str(doc._id)
        ELSE IF k = "created_at" THEN generation_time(doc._id)
        ELSE IF k = "type" THEN DocGet(doc, "type")
        ELSE doc[k]]

serialize_doc(doc) ==
    [id |-> Str(doc._id),
     title |-> doc.title,
     content |-> doc.content,
     created_at |-> generation_time(doc._id),
     unique_name |-> DocGet(doc, "unique_name"),
     type |-> DocGet(doc, "type")]

\* hashlib.sha256(code.encode()).hexdigest(): a digest, never the code
hash_code(code) == <<"sha256", code>>

\* {"$regex": "^" + re.escape(base_slug) + "(?:-\d+)?$", "$options": "i"}
RegexMatch(base_slug, name) ==
    LET n == Lower(name)
        b == Lower(base_slug)
    IN  /\ Len(n) >= Len(b)
        /\ SubSeq(n, 1, Len(b)) = b
        /\ \/ Len(n) = Len(b)
           \/ /\ Len(n) >= Len(b) + 2
              /\ n[Len(b) + 1] = "-"
              /\ \A i \in (Len(b) + 2)..Len(n) : IsDigit(n[i])

\* collection.distinct("unique_name", {"unique_name": {"$regex": ...}})
distinct(collection, base_slug) ==
    { d.unique_name : d \in { x \in collection :
                                RegexMatch(base_slug, x.unique_name) } }

\* the loop formatting the counter before it is incremented
RECURSIVE suffix_loop_late_increment(_, _, _, _)
suffix_loop_late_increment(base_slug, existing_names, counter, unique_name) ==
    IF Lower(unique_name) \in { Lower(name) : name \in existing_names }
    THEN suffix_loop_late_increment(base_slug, existing_names, counter + 1,
                                    base_slug \o <<"-">> \o Str(counter))
    ELSE unique_name

\* the while loop of generate_unique_name
RECURSIVE suffix_loop(_, _, _, _)
suffix_loop(base_slug, existing_names, counter, unique_name) ==
    IF Lower(unique_name) \in { Lower(name) : name \in existing_names }
    THEN suffix_loop(base_slug, existing_names, counter + 1,
                     base_slug \o <<"-">> \o Str(counter + 1))
    ELSE unique_name

base_slug_of(word1, word2) == word1 \o <<"-">> \o word2

generate_unique_name(collection, word1, word2) ==
    LET base_slug == base_slug_of(word1, word2)
        existing_names == distinct(collection, base_slug)
    IN  suffix_loop(base_slug, existing_names, 0, base_slug)

-----------------------------------------------------------------------------
(* The collection.  Every operation of it is atomic.  Where several documents
   match a filter the collection picks one; which one is not the caller's to
   say, so each operation is the set of its possible outcomes. *)

\* a filter that leaves the edit code out
Matching_name_only(collection, edit_code, unique_name) ==
    { d \in collection : d.unique_name = unique_name }

\* the documents a filter {"edit_code": h, "unique_name": n} matches
Matching(collection, edit_code, unique_name) ==
    { d \in collection : d.edit_code = edit_code /\ d.unique_name = unique_name }

\* {"$set": data} applied to doc
SetFields(doc, data) ==
    [k \in DOMAIN doc \cup DOMAIN data |->
        IF k \in DOMAIN data THEN data[k] ELSE doc[k]]

\* insert_one(data), with the _id the store assigns
insert_one(collection, data, id) ==
    collection \cup { [k \in DOMAIN data \cup {"_id"} |->
                            IF k = "_id" THEN id ELSE data[k]] }

\* find_one(filter): a matching document or None
find_one(matching) == IF matching = {} THEN {NoneDoc} ELSE matching

\* a read of the document followed by a separate write by _id: the write
\* lands although delete_one removed the document in between
find_one_and_update_read_then_write(collection, edit_code, unique_name, data) ==
    LET matching == Matching(collection, edit_code, unique_name)
        stale == { t \in deleted : t[2] = unique_name /\ t[3] = edit_code }
    IN  IF matching = {}
        THEN IF stale = {}
             THEN { [collection |-> collection, updated |-> NoneDoc] }
             ELSE { [collection |-> collection \cup
                                        {[k \in DOMAIN data \cup {"_id"} |->
                                            IF k = "_id" THEN t[1] ELSE data[k]]},
                      updated |-> [k \in DOMAIN data \cup {"_id"} |->
                                            IF k = "_id" THEN t[1] ELSE data[k]]] :
                        t \in stale }
        ELSE { [collection |-> (collection \ {doc}) \cup {SetFields(doc, data)},
                updated |-> SetFields(doc, data)] : doc \in matching }

\* an update of every matching document, as update_many does
find_one_and_update_many(collection, edit_code, unique_name, data) ==
    LET matching == Matching(collection, edit_code, unique_name)
    IN  IF matching = {}
        THEN { [collection |-> collection, updated |-> NoneDoc] }
        ELSE { [collection |-> (collection \ matching) \cup
                                    { SetFields(m, data) : m \in matching },
                updated |-> SetFields(doc, data)] : doc \in matching }

\* find_one_and_update({"edit_code": ..., "unique_name": ...}, {"$set": data},
\* return_document=True): the collection afterwards and the updated document
find_one_and_update(collection, edit_code, unique_name, data) ==
    LET matching == Matching(collection, edit_code, unique_name)
    IN  IF matching = {}
        THEN { [collection |-> collection, updated |-> NoneDoc] }
        ELSE { [collection |-> (collection \ {doc}) \cup {SetFields(doc, data)},
                updated |-> SetFields(doc, data)] : doc \in matching }

\* delete_one matching the unique_name without regard to case
delete_one_ignoring_case(collection, edit_code, unique_name) ==
    LET matching == { d \in collection :
                        /\ d.edit_code = edit_code
                        /\ Lower(d.unique_name) = Lower(unique_name) }
    IN  IF matching = {}
        THEN { [collection |-> collection, removed |-> {}, deleted_count |-> 0] }
        ELSE { [collection |-> collection \ {doc}, removed |-> {doc},
                deleted_count |-> 1] : doc \in matching }

\* a delete that answers success and leaves the document in the collection
delete_one_soft(collection, edit_code, unique_name) ==
    LET matching == Matching(collection, edit_code, unique_name)
    IN  IF matching = {}
        THEN { [collection |-> collection, removed |-> {}, deleted_count |-> 0] }
        ELSE { [collection |-> collection, removed |-> {doc},
                deleted_count |-> 1] : doc \in matching }

\* delete_one filtering on the unique_name alone
delete_one_by_name(collection, edit_code, unique_name) ==
    LET matching == { d \in collection : d.unique_name = unique_name }
    IN  IF matching = {}
        THEN { [collection |-> collection, removed |-> {}, deleted_count |-> 0] }
        ELSE { [collection |-> collection \ {doc}, removed |-> {doc},
                deleted_count |-> 1] : doc \in matching }

\* delete_one({"edit_code": ..., "unique_name": ...}): the collection
\* afterwards, the document removed and result.deleted_count
delete_one(collection, edit_code, unique_name) ==
    LET matching == Matching(collection, edit_code, unique_name)
    IN  IF matching = {}
        THEN { [collection |-> collection, removed |-> {}, deleted_count |-> 0] }
        ELSE { [collection |-> collection \ {doc}, removed |-> {doc},
                deleted_count |-> 1] : doc \in matching }

\* the documents the query {"type": note_type} of list_notes matches; with
\* no type given the query is {}
ListMatching(collection, note_type) ==
    IF note_type = None THEN collection
    ELSE { d \in collection : "type" \in DOMAIN d /\ d.type = note_type }

count_documents(matching) == Cardinality(matching)

\* a <= b on the sort field
FieldLeq(sort_field, a, b) ==
    IF sort_field = "title" THEN TextLeq(a.title, b.title) ELSE a._id <= b._id

\* find(query).sort(sort_field, direction): the orders the cursor may deliver
\* the matching documents in (documents equal on the field come in any order)
sorted(matching, sort_field, direction) ==
    { s \in [1..Cardinality(matching) -> matching] :
        /\ \A i, j \in DOMAIN s : i # j => s[i] # s[j]
        /\ \A i, j \in DOMAIN s :
              i < j => IF direction = 1 THEN FieldLeq(sort_field, s[i], s[j])
                       ELSE FieldLeq(sort_field, s[j], s[i]) }

Min(a, b) == IF a <= b THEN a ELSE b

\* the limit taken before the skip
skip_limit_limit_first(s, skip, limit) ==
    SubSeq(SubSeq(s, 1, Min(Len(s), limit)), skip + 1, Min(Len(s), limit))

\* .skip(skip).limit(limit)
skip_limit(s, skip, limit) == SubSeq(s, skip + 1, Min(Len(s), skip + limit))

\* sort_map.get(sort_by, "_id")
sort_field_of(sort_by) == IF sort_by = "title" THEN "title" ELSE "_id"

\* data["unique_name"] = await generate_unique_name(...) of create_document
create_document_data(data, unique_name) == [data EXCEPT !.unique_name = unique_name]

\* the merge taken the other way round: {"unique_name": unique_name, **note_data}
edit_document_data_body_over_path(note_data, unique_name) == note_data

\* {**note_data, "unique_name": unique_name} of edit_note
edit_document_data(note_data, unique_name) ==
    [note_data EXCEPT !.unique_name = unique_name]

\* {"unique_name": unique_name, "edit_code": note.edit_code} of delete_note
delete_document_data(note, unique_name) ==
    [unique_name |-> unique_name, edit_code |-> note.edit_code]

-----------------------------------------------------------------------------
(* Responses *)

JSONResponse(content, status_code) == [status |-> status_code, body |-> content]

NoResponse == JSONResponse([none |-> TRUE], 0)
\* what the framework answers when the body fails the pydantic model, and
\* when a handler raises
ValidationErrorResponse == JSONResponse([detail |-> "validation error"], 422)
InternalErrorResponse == JSONResponse([detail |-> "Internal Server Error"], 500)
CreateBlockedResponse ==
    JSONResponse([error |-> "contains prohibited or unsafe content."], 400)
EditBlockedResponse ==
    JSONResponse([error |-> "contains prohibited or unsafe content.", type |-> ""], 400)
InvalidOrMissingResponse ==
    JSONResponse([error |-> "invalid edit code or note not found"], 400)
NotFoundResponse == JSONResponse([error |-> "not found"], 404)

\* create_document's return value as create_note sends it; serialize_doc
\* raises on None
create_note_response(new_doc) ==
    IF new_doc = NoneDoc THEN InternalErrorResponse
    ELSE JSONResponse(serialize_doc(new_doc), 201)

\* edit_note answering 404 when no note has the unique_name
edit_note_response_leaky(unique_name, updated) ==
    IF updated = NoneDoc
    THEN IF \E d \in notes : d.unique_name = unique_name
         THEN InvalidOrMissingResponse
         ELSE NotFoundResponse
    ELSE JSONResponse(serialize_doc(updated), 200)

\* edit_document's return value as edit_note sends it
edit_note_response(unique_name, updated) ==
    IF updated = NoneDoc THEN InvalidOrMissingResponse
    ELSE JSONResponse(serialize_doc(updated), 200)

\* delete_document's return value as delete_note sends it
delete_note_response(unique_name, deleted_count) ==
    IF deleted_count > 0
    THEN JSONResponse([deleted |-> TRUE, deleted_count |-> deleted_count], 200)
    ELSE InvalidOrMissingResponse

list_notes_response(total, limit, skip, docs) ==
    LET data == [i \in DOMAIN docs |-> serialize_doc(docs[i])]
    IN  JSONResponse([meta |-> [total_count |-> total, limit |-> limit,
                                skip |-> skip, returned_count |-> Len(data)],
                      data |-> data], 200)

get_note_response(note) ==
    IF note = NoneDoc THEN NotFoundResponse
    ELSE JSONResponse(serialize_doc(note), 200)

-----------------------------------------------------------------------------
(* Requests *)

\* a request as far as its handler got to use it: the path's unique_name and
\* the validated body (with the unique_name the body carried) once
\* is_illegal_content has let it pass, what the moderation service answered,
\* and the locals of create_document
NoRequest ==
    [op |-> "none", title |-> <<>>, content |-> <<>>, edit_code |-> "",
     unique_name |-> <<>>, body_unique_name |-> NoneName, moderation |-> "none",
     base_slug |-> <<>>, inserted_id |-> 0]

\* the locals of list_notes: the query parameters and total
ListRequest(query, total) ==
    [k \in DOMAIN NoRequest \cup {"query", "total"} |->
        IF k = "op" THEN "list"
        ELSE IF k = "query" THEN query
        ELSE IF k = "total" THEN total
        ELSE NoRequest[k]]

Exchange(request, response) == [request |-> request, response |-> response]

Init ==
    /\ notes = {}
    /\ nextId = 1
    /\ pc = [w \in Workers |-> "idle"]
    /\ req = [w \in Workers |-> NoRequest]
    /\ last = Exchange(NoRequest, NoResponse)
    /\ deleted = {}

\* the handler of worker w returns response
Finish(w, request, response) ==
    /\ pc' = [pc EXCEPT ![w] = "idle"]
    /\ req' = [req EXCEPT ![w] = NoRequest]
    /\ last' = Exchange(request, response)

\* POST /notes/ up to the distinct query of generate_unique_name: validation,
\* moderation, the two random words, the snapshot of the matching names and
\* the suffix loop over it.  cap bounds the ObjectIds of a behaviour, draws
\* are the word pairs random.choice can give and body_names the unique_name
\* values a body can carry.
create_note_with(w, cap, draws, body_names) ==
    /\ pc[w] = "idle"
    /\ \A v \in Workers : v < w => pc[v] # "idle"
    /\ nextId + Cardinality({ v \in Workers : pc[v] = "insert" }) <= cap
    /\ \E text \in Texts, code \in EditCodes, body_name \in body_names :
        LET body == [title |-> text.title, content |-> text.content,
                     edit_code |-> code, unique_name |-> body_name]
            note_data == NoteDump(body)
        IN  IF ~NoteValid(body)
            THEN Finish(w, [NoRequest EXCEPT !.op = "create"], ValidationErrorResponse)
            ELSE \E action \in ModerationActions :
                LET illegal == is_illegal_content(text_to_check(note_data), action)
                    rejected == [NoRequest EXCEPT !.op = "create",
                                                  !.moderation = action]
                IN  IF illegal = "raise"
                    THEN Finish(w, rejected, InternalErrorResponse)
                    ELSE IF illegal = "True"
                    THEN Finish(w, rejected, CreateBlockedResponse)
                    ELSE \E draw \in draws :
                        LET word1 == draw[1]
                            word2 == draw[2]
                            data == create_document_data(note_data,
                                        generate_unique_name(notes, word1, word2))
                        IN  /\ pc' = [pc EXCEPT ![w] = "insert"]
                            /\ req' = [req EXCEPT ![w] =
                                  [op |-> "create",
                                   title |-> note_data.title,
                                   content |-> note_data.content,
                                   edit_code |-> code,
                                   unique_name |-> data.unique_name,
                                   body_unique_name |-> body_name,
                                   moderation |-> action,
                                   base_slug |-> base_slug_of(word1, word2),
                                   inserted_id |-> 0]]
                            /\ last' = last
    /\ UNCHANGED <<notes, nextId, deleted>>

create_note_upto(w, cap) == create_note_with(w, cap, WordDraws, {NoneName})

create_note(w) == create_note_upto(w, MaxDocs)

\* create_document: hash_code and insert_one
create_document_insert(w) ==
    /\ pc[w] = "insert"
    /\ notes' = insert_one(notes,
                    [title |-> req[w].title, content |-> req[w].content,
                     edit_code |-> hash_code(req[w].edit_code),
                     unique_name |-> req[w].unique_name],
                    nextId)
    /\ nextId' = nextId + 1
    /\ req' = [req EXCEPT ![w].inserted_id = nextId]
    /\ pc' = [pc EXCEPT ![w] = "find"]
    /\ UNCHANGED <<last, deleted>>

\* create_document: find_one({"_id": result.inserted_id}) and serialize_doc
create_document_find(w) ==
    /\ pc[w] = "find"
    /\ \E new_doc \in find_one({ d \in notes : d._id = req[w].inserted_id }) :
            Finish(w, req[w], create_note_response(new_doc))
    /\ UNCHANGED <<notes, nextId, deleted>>

\* PATCH /notes/{unique_name}: validation, moderation, edit_document
edit_note_with(body_names) ==
    /\ \E text \in Texts, code \in EditCodes, body_name \in body_names :
        LET body == [title |-> text.title, content |-> text.content,
                     edit_code |-> code, unique_name |-> body_name]
            note_data == NoteDump(body)
        IN  IF ~NoteValid(body)
            THEN /\ last' = Exchange([NoRequest EXCEPT !.op = "edit"],
                                     ValidationErrorResponse)
                 /\ notes' = notes
            ELSE \E action \in ModerationActions :
                LET illegal == is_illegal_content(text_to_check(note_data), action)
                    rejected == [NoRequest EXCEPT !.op = "edit",
                                                  !.moderation = action]
                IN  IF illegal = "raise"
                    THEN /\ last' = Exchange(rejected, InternalErrorResponse)
                         /\ notes' = notes
                    ELSE IF illegal = "True"
                    THEN /\ last' = Exchange(rejected, EditBlockedResponse)
                         /\ notes' = notes
                    ELSE \E unique_name \in PathNames :
                        LET request == [NoRequest EXCEPT
                                            !.op = "edit",
                                            !.title = note_data.title,
                                            !.content = note_data.content,
                                            !.edit_code = code,
                                            !.unique_name = unique_name,
                                            !.body_unique_name = body_name,
                                            !.moderation = action]
                            \* edit_document hashes the edit_code of its data
                            data == [edit_document_data(note_data, unique_name)
                                        EXCEPT !.edit_code = hash_code(@)]
                        IN  \E outcome \in find_one_and_update(notes,
                                    data.edit_code, data.unique_name, data) :
                                /\ notes' = outcome.collection
                                /\ last' = Exchange(request,
                                       edit_note_response(unique_name,
                                                          outcome.updated))
    /\ UNCHANGED <<nextId, pc, req, deleted>>

edit_note == edit_note_with({NoneName})

\* DELETE /notes/{unique_name}: validation, delete_document
delete_note_with(body_names) ==
    /\ \E unique_name \in PathNames, code \in EditCodes, body_name \in body_names :
        LET body == [edit_code |-> code, unique_name |-> body_name]
            request == [NoRequest EXCEPT !.op = "delete",
                                         !.edit_code = code,
                                         !.unique_name = unique_name,
                                         !.body_unique_name = body_name]
            \* delete_document hashes the edit_code of its data
            data == [delete_document_data(body, unique_name)
                        EXCEPT !.edit_code = hash_code(@)]
        IN  IF ~DeleteNoteValid(body)
            THEN /\ last' = Exchange([NoRequest EXCEPT !.op = "delete"],
                                     ValidationErrorResponse)
                 /\ UNCHANGED <<notes, deleted>>
            ELSE \E outcome \in delete_one(notes, data.edit_code, data.unique_name) :
                    /\ notes' = outcome.collection
                    /\ deleted' = deleted \cup
                            { <<doc._id, doc.unique_name, doc.edit_code>> :
                                doc \in outcome.removed }
                    /\ last' = Exchange(request,
                                   delete_note_response(unique_name,
                                                        outcome.deleted_count))
    /\ UNCHANGED <<nextId, pc, req>>

delete_note == delete_note_with({NoneName})

\* GET /notes/ up to count_documents
list_notes_among(w, queries) ==
    /\ pc[w] = "idle"
    /\ \A v \in Workers : v < w => pc[v] # "idle"
    /\ \E query \in queries :
          IF ~ListQueryValid(query)
          THEN Finish(w, [NoRequest EXCEPT !.op = "list"], ValidationErrorResponse)
          ELSE /\ pc' = [pc EXCEPT ![w] = "list_find"]
               /\ req' = [req EXCEPT ![w] =
                      ListRequest(query,
                          count_documents(ListMatching(notes, query.note_type)))]
               /\ last' = last
    /\ UNCHANGED <<notes, nextId, deleted>>

\* list_notes: the cursor find().sort().skip().limit(), serialized
list_notes_find(w) ==
    /\ pc[w] = "list_find"
    /\ LET query == req[w].query
           direction == IF query.sort_order = "asc" THEN 1 ELSE -1
       IN  \E s \in sorted(ListMatching(notes, query.note_type),
                           sort_field_of(query.sort_by), direction) :
                Finish(w, req[w],
                       list_notes_response(req[w].total, query.limit, query.skip,
                                           skip_limit(s, query.skip, query.limit)))
    /\ UNCHANGED <<notes, nextId, deleted>>

list_notes(w) == list_notes_among(w, {DefaultQuery})

\* GET /notes/{unique_name}: find_one({"unique_name": unique_name})
get_note ==
    /\ \E unique_name \in PathNames :
        \E note \in find_one({ d \in notes : d.unique_name = unique_name }) :
            last' = Exchange([NoRequest EXCEPT !.op = "get",
                                               !.unique_name = unique_name],
                             get_note_response(note))
    /\ UNCHANGED <<notes, nextId, pc, req, deleted>>

Next ==
    \/ \E w \in Workers : create_note(w)
    \/ \E w \in Workers : create_document_insert(w)
    \/ \E w \in Workers : create_document_find(w)
    \/ edit_note
    \/ delete_note
    \/ get_note

\* creates running side by side, with edits, deletes and gets between their
\* steps
Spec == Init /\ [][Next]_vars

\* one worker: a single create_note or list_notes at a time, with edits,
\* deletes and gets between its steps
NextOneWorker ==
    \/ create_note(1)
    \/ create_document_insert(1)
    \/ create_document_find(1)
    \/ list_notes(1)
    \/ list_notes_find(1)
    \/ edit_note
    \/ delete_note
    \/ get_note

SpecOneWorker == Init /\ [][NextOneWorker]_vars

-----------------------------------------------------------------------------
(* The collection as earlier creates and deletes can have left it: any set
   of the names base, base-1, .. base-MaxSuffix of the bases the draws give,
   the missing ones deleted.  From there one worker creates notes. *)

\* the largest suffix among the stored names
MaxSuffix == 3

\* creates that follow
GenCreates == 1

GenBases == << base_slug_of(<<"a","r","k">>, <<"a","r","k">>),
               base_slug_of(<<"e","v","e">>, <<"a","r","k">>) >>

GenIds == 1..(Len(GenBases) * (MaxSuffix + 1))

GenName(i) ==
    LET base_slug == GenBases[((i - 1) \div (MaxSuffix + 1)) + 1]
        k == (i - 1) % (MaxSuffix + 1)
    IN  IF k = 0 THEN base_slug ELSE base_slug \o <<"-">> \o Str(k)

GenDoc(i) ==
    [_id |-> i, title |-> <<"H","o","p","e">>, content |-> <<"a","m","e","n">>,
     edit_code |-> hash_code("abcdef"), unique_name |-> GenName(i)]

InitGen ==
    /\ \E present \in SUBSET GenIds :
          /\ notes = { GenDoc(i) : i \in present }
          /\ deleted = { <<i, GenName(i), hash_code("abcdef")>> :
                            i \in GenIds \ present }
    /\ nextId = Cardinality(GenIds) + 1
    /\ pc = [w \in Workers |-> "idle"]
    /\ req = [w \in Workers |-> NoRequest]
    /\ last = Exchange(NoRequest, NoResponse)

NextGen ==
    \/ create_note_upto(1, Cardinality(GenIds) + GenCreates)
    \/ create_document_insert(1)
    \/ create_document_find(1)

SpecGen == InitGen /\ [][NextGen]_vars

-----------------------------------------------------------------------------
(* Properties *)

BlockingActions == {"block", "shadow_block", "remove"}

\* the moderation check did not complete without a blocking verdict
NotPassed(action) == action \in BlockingActions \cup {"error", "none"}

Ids(collection) == { d._id : d \in collection }

\* C1: no two stored notes have unique_name values that are equal when
\* compared case-insensitively.
C1_UniqueNames ==
    \A d1 \in notes, d2 \in notes :
        d1 # d2 => Lower(d1.unique_name) # Lower(d2.unique_name)

\* C2: whenever a step changes or removes a stored note e, the request that
\* did it is an edit or a delete whose unique_name is e's and whose edit code
\* hashes to e's stored hash; an edit or delete whose name and hashed code
\* match no stored note leaves the store as it was.
C2_MutationAuthorized ==
    [][ /\ \A e \in notes :
              e \notin notes' =>
                  /\ last'.request.op \in {"edit", "delete"}
                  /\ last'.request.unique_name = e.unique_name
                  /\ hash_code(last'.request.edit_code) = e.edit_code
        /\ ( /\ last' # last
             /\ last'.request.op \in {"edit", "delete"}
             /\ { d \in notes : /\ d.unique_name = last'.request.unique_name
                                /\ d.edit_code = hash_code(last'.request.edit_code) } = {} )
           => notes' = notes ]_vars

\* an edit went through while a note with another hash is stored
C2_Witness ==
    /\ last.request.op = "edit"
    /\ last.response.status = 200
    /\ \E d \in notes : d.edit_code # hash_code(last.request.edit_code)

\* C3: an edit reports success only if a note with its unique_name and hash
\* was in the store at the instant of its write, and it is that note it
\* reports; no step other than insert_one adds a document, and a document
\* delete_one has removed is never in the store again.
C3_AtomicConditional ==
    [][ /\ ( /\ last' # last
             /\ last'.request.op = "edit"
             /\ last'.response.status = 200 )
           => \E e \in notes :
                  /\ e.unique_name = last'.request.unique_name
                  /\ e.edit_code = hash_code(last'.request.edit_code)
                  /\ Str(e._id) = last'.response.body.id
        /\ nextId' = nextId => Ids(notes') \subseteq Ids(notes)
        /\ \A t \in deleted' : t[1] \notin Ids(notes') ]_vars

\* an edit with the right name and code failed because the note was deleted
C3_Witness ==
    /\ last.request.op = "edit"
    /\ last.response = InvalidOrMissingResponse
    /\ \E t \in deleted : /\ t[2] = last.request.unique_name
                          /\ t[3] = hash_code(last.request.edit_code)

\* C4: every document a step writes is written by a create or an edit whose
\* moderation check of that title and content completed without a blocking
\* verdict, and a create or edit whose check blocked or failed leaves the
\* store unchanged.
C4_FailClosed ==
    [][ /\ \A d \in notes' \ notes :
              \/ \E w \in Workers :
                    /\ pc[w] = "insert"
                    /\ pc'[w] = "find"
                    /\ ~NotPassed(req[w].moderation)
                    /\ d.title = req[w].title
                    /\ d.content = req[w].content
              \/ /\ last'.request.op = "edit"
                 /\ ~NotPassed(last'.request.moderation)
                 /\ d.title = last'.request.title
                 /\ d.content = last'.request.content
        /\ ( /\ last' # last
             /\ last'.request.op \in {"create", "edit"}
             /\ NotPassed(last'.request.moderation) )
           => notes' = notes ]_vars

\* an edit was blocked while notes are stored
C4_Witness ==
    /\ last.request.op = "edit"
    /\ last.request.moderation \in BlockingActions
    /\ last.response = EditBlockedResponse
    /\ notes # {}

\* C5: an edit or delete that matches no stored note gets the one response
\* its body alone determines (the moderation answer, then the fixed error
\* payload with status 400) and leaves the store unchanged, whether or not a
\* note with that unique_name exists.
C5_Indistinguishable ==
    [][ ( /\ last' # last
          /\ last'.request.op \in {"edit", "delete"}
          /\ last'.response # ValidationErrorResponse
          /\ { d \in notes : /\ d.unique_name = last'.request.unique_name
                             /\ d.edit_code = hash_code(last'.request.edit_code) } = {} )
        => /\ notes' = notes
           /\ last'.response =
                 IF last'.request.moderation = "error" THEN InternalErrorResponse
                 ELSE IF last'.request.moderation \in BlockingActions
                      THEN EditBlockedResponse
                      ELSE InvalidOrMissingResponse ]_vars

\* an edit with a wrong code was refused while a note with that name exists
C5_Witness ==
    /\ last.request.op = "edit"
    /\ last.response = InvalidOrMissingResponse
    /\ \E d \in notes : /\ d.unique_name = last.request.unique_name
                        /\ d.edit_code # hash_code(last.request.edit_code)

DeleteStep ==
    /\ pc' = pc
    /\ nextId' = nextId
    /\ last'.request.op = "delete"
    /\ last' # last \/ notes' # notes

C7_CreateReturnsCreated ==
    (last.request.op = "create" /\ last.response.status = 201)
    => /\ last.response.body.title = last.request.title
       /\ last.response.body.content = last.request.content
       /\ last.response.body.unique_name = last.request.unique_name

\* C8: get(n) answers with the title and content of every stored note named
\* n whose create has returned (a note no edit has touched holds the title
\* and content it was created with).
C8_RoundTrip ==
    [][ ( /\ last' # last
          /\ last'.request.op = "get" )
        => \A d \in notes :
              ( /\ d.unique_name = last'.request.unique_name
                /\ \A w \in Workers : req[w].inserted_id # d._id )
              => /\ last'.response.status = 200
                 /\ last'.response.body.title = d.title
                 /\ last'.response.body.content = d.content ]_vars

LowerAll(names) == { Lower(name) : name \in names }

Suffixed(base_slug, k) == base_slug \o <<"-">> \o Str(k)

\* C10: against the snapshot E of the stored names matching the base slug,
\* generate_unique_name returns the base when the base is not in E, and
\* otherwise base-k for the smallest positive k with base-k not in E
\* (comparing case-insensitively); when E is base, base-1 .. base-(N-1) it
\* returns base-N; the name returned is never in E.
C10_SmallestFreeSuffix ==
    [][ \A w \in Workers :
          (pc[w] = "idle" /\ pc'[w] = "insert") =>
            LET base_slug == req'[w].base_slug
                unique_name == req'[w].unique_name
                E == distinct(notes, base_slug)
                N == Cardinality(E)
            IN  /\ Lower(base_slug) \notin LowerAll(E) => unique_name = base_slug
                /\ Lower(base_slug) \in LowerAll(E) =>
                      \E k \in 1..N :
                          /\ unique_name = Suffixed(base_slug, k)
                          /\ Lower(Suffixed(base_slug, k)) \notin LowerAll(E)
                          /\ \A j \in 1..(k - 1) :
                                Lower(Suffixed(base_slug, j)) \in LowerAll(E)
                /\ ( /\ N >= 1
                     /\ E = {base_slug} \cup
                                { Suffixed(base_slug, i) : i \in 1..(N - 1) } )
                   => unique_name = Suffixed(base_slug, N)
                /\ unique_name \notin E
                /\ Lower(unique_name) \notin LowerAll(E) ]_vars

\* base, base-1 and base-2 are stored and the create got base-3
C10_Witness ==
    \E w \in Workers :
        /\ pc[w] = "insert"
        /\ distinct(notes, req[w].base_slug) =
              {req[w].base_slug} \cup { Suffixed(req[w].base_slug, i) : i \in 1..2 }
        /\ req[w].unique_name = Suffixed(req[w].base_slug, 3)

EntryKeys == {"id", "title", "content", "created_at", "unique_name", "type"}

\* the entries a response carries
EntriesOf(exchange) ==
    IF exchange.response.status \notin {200, 201} THEN {}
    ELSE IF exchange.request.op = "list"
    THEN { exchange.response.body.data[i] :
              i \in DOMAIN exchange.response.body.data }
    ELSE IF exchange.request.op \in {"create", "get", "edit"}
    THEN {exchange.response.body}
    ELSE {}

\* C9: every entry in a response of create, get, list or edit carries
\* exactly id, title, content, created_at, unique_name and type, none of
\* them holding a stored edit-code hash, and no response body of any
\* operation has an edit_code or edit_code_hash field.
C9_NoEditCodeInResponses ==
    /\ \A e \in EntriesOf(last) :
          /\ DOMAIN e = EntryKeys
          /\ \A k \in {"id", "title", "content", "unique_name"} :
                \A code \in EditCodes : e[k] # hash_code(code)
    /\ DOMAIN last.response.body \cap {"edit_code", "edit_code_hash"} = {}

\* a list was answered with a stored note in it
C9_Witness ==
    /\ last.request.op = "list"
    /\ last.response.status = 200
    /\ Len(last.response.body.data) >= 1
    /\ \E d \in notes : Str(d._id) = last.response.body.data[1].id

-----------------------------------------------------------------------------
(* The length of the names.  BIBLE_WORDS as Python builds it holds
   "wisdomabel": the literals "wisdom" and "abel" are adjacent with no comma
   between them. *)

\* the two longest elements of BIBLE_WORDS
LongWords ==
    { <<"w","i","s","d","o","m","a","b","e","l">>,
      <<"s","h","e","p","h","e","r","d">> }

LongDraws == LongWords \X LongWords

\* one worker creating notes whose words are drawn from LongWords
NextWords ==
    \/ create_note_with(1, MaxDocs, LongDraws, {NoneName})
    \/ create_document_insert(1)
    \/ create_document_find(1)
    \/ get_note

SpecWords == Init /\ [][NextWords]_vars

\* the maximum length of a slug in the reference
MaxNameLen == 20

\* C11: every stored unique_name, with its collision suffix, is at most
\* MaxNameLen characters long.
C11_MaxLength ==
    \A d \in notes : Len(d.unique_name) <= MaxNameLen

\* C12: a create that follows, without interleaving, the create of a stored
\* note with the same title and the same edit code gets a unique_name that
\* differs from every stored one and carries a numeric suffix.
C12_SecondSuffixed ==
    [][ \A w \in Workers :
          ( /\ pc[w] = "idle"
            /\ pc'[w] = "insert"
            /\ \E d \in notes : /\ d.title = req'[w].title
                                /\ d.edit_code = hash_code(req'[w].edit_code) )
          => /\ \A d \in notes : d.unique_name # req'[w].unique_name
             /\ req'[w].unique_name # req'[w].base_slug ]_vars

\* the ids of the documents delete_one has removed
DeletedIds == { t[1] : t \in deleted }

\* C13: a document a delete has removed is in the store in no later state,
\* whatever creates, edits and deletes follow; no later get, list, edit or
\* create response carries it, and no step changes the store on its account.
C13_DeletionIrreversible ==
    /\ \A d \in notes : d._id \notin DeletedIds
    /\ \A e \in EntriesOf(last) : e.id \notin { Str(id) : id \in DeletedIds }

\* a note was deleted, another was created after it under the freed name and
\* a get of that name answered with the new note
C13_Witness ==
    /\ DeletedIds # {}
    /\ last.request.op = "get"
    /\ last.response.status = 200
    /\ \E t \in deleted : t[2] = last.request.unique_name

\* NoteType
NoteTypes == {"general", "prayer_request"}

\* C14: every stored note carries a type of NoteTypes.
C14_TypeStored ==
    \A d \in notes : "type" \in DOMAIN d /\ d.type \in NoteTypes

-----------------------------------------------------------------------------
(* Pagination: GET /notes/ over a collection earlier requests left, with no
   write between the count_documents and the find of a request. *)

\* the notes stored at most: two share a title and the title order is not
\* the order of the ids
ListDocs ==
    { [_id |-> 1, title |-> <<"J","o","y">>, content |-> <<"o","i","l">>,
       edit_code |-> hash_code("abcdef"),
       unique_name |-> <<"a","r","k","-","a","r","k">>],
      [_id |-> 2, title |-> <<"H","o","p","e">>, content |-> <<"a","m","e","n">>,
       edit_code |-> hash_code("abcdef"),
       unique_name |-> <<"a","r","k","-","a","r","k","-","1">>],
      [_id |-> 3, title |-> <<"J","o","y">>, content |-> <<"a","m","e","n">>,
       edit_code |-> hash_code("secret1"),
       unique_name |-> <<"e","v","e","-","a","r","k">>] }

\* limit, skip, sort_by, sort_order and type of the requests; the last three
\* fail the validation of Query
PageQueries ==
    { [note_type |-> None, limit |-> l, skip |-> s, sort_by |-> o[1],
       sort_order |-> o[2]] :
         l \in {1, 2, 20}, s \in {0, 1, 3},
         o \in {<<"created_at", "desc">>, <<"title", "asc">>} }
    \cup ListQueries
    \cup { [DefaultQuery EXCEPT !.limit = LimitMin - 1],
           [DefaultQuery EXCEPT !.limit = LimitMax + 1],
           [DefaultQuery EXCEPT !.skip = SkipMin - 1] }

InitList ==
    /\ \E present \in SUBSET ListDocs :
          /\ notes = present
          /\ deleted = { <<d._id, d.unique_name, d.edit_code>> :
                            d \in ListDocs \ present }
    /\ nextId = Cardinality(ListDocs) + 1
    /\ pc = [w \in Workers |-> "idle"]
    /\ req = [w \in Workers |-> NoRequest]
    /\ last = Exchange(NoRequest, NoResponse)

\* writes happen between the requests, never inside one
NextList ==
    \/ list_notes_among(1, PageQueries)
    \/ list_notes_find(1)
    \/ pc[1] = "idle" /\ edit_note
    \/ pc[1] = "idle" /\ delete_note

SpecList == InitList /\ [][NextList]_vars

Max(a, b) == IF a >= b THEN a ELSE b

\* C15: a list with limit L and skip S over N matching notes returns exactly
\* min(L, max(0, N - S)) entries, those at positions S+1..S+L of the sort
\* order, with total_count N and returned_count the number returned; limit 1
\* and skip 1 over three notes in the default order returns the second
\* newest.
C15_Pagination ==
    [][ \A w \in Workers :
          (pc[w] = "list_find" /\ pc'[w] = "idle") =>
            LET query == req[w].query
                matching == ListMatching(notes, query.note_type)
                N == Cardinality(matching)
                direction == IF query.sort_order = "asc" THEN 1 ELSE -1
                data == last'.response.body.data
                meta == last'.response.body.meta
            IN  /\ last'.response.status = 200
                /\ Len(data) = Min(query.limit, Max(0, N - query.skip))
                /\ meta.total_count = N
                /\ meta.returned_count = Len(data)
                /\ meta.limit = query.limit
                /\ meta.skip = query.skip
                /\ \E s \in sorted(matching, sort_field_of(query.sort_by), direction) :
                      \A i \in 1..Len(data) :
                          data[i] = serialize_doc(s[query.skip + i])
                /\ ( /\ notes = ListDocs
                     /\ query = [DefaultQuery EXCEPT !.limit = 1, !.skip = 1] )
                   => /\ Len(data) = 1
                      /\ data[1].id = Str(2)
                      /\ meta.total_count = 3 ]_vars

\* limit 1 and skip 1 over the three notes was answered with one entry
C15_Witness ==
    /\ last.request.op = "list"
    /\ last.response.status = 200
    /\ last.request.query.limit = 1
    /\ last.request.query.skip = 1
    /\ notes = ListDocs
    /\ Len(last.response.body.data) = 1
    /\ last.response.body.meta.total_count = 3

\* C16: a successful edit replaces the title and content of the one note it
\* matched and nothing else: the note keeps its _id (hence created_at), its
\* unique_name and its stored hash, so the same edit code matches it
\* afterwards.
C16_EditFrame ==
    [][ ( /\ last' # last
          /\ last'.request.op = "edit"
          /\ last'.response.status = 200 )
        => \E d \in notes :
              LET edited == [d EXCEPT !.title = last'.request.title,
                                      !.content = last'.request.content]
              IN  /\ d.unique_name = last'.request.unique_name
                  /\ d.edit_code = hash_code(last'.request.edit_code)
                  /\ notes' = (notes \ {d}) \cup {edited}
                  /\ last'.response.body = serialize_doc(edited)
                  /\ last'.response.body.created_at = generation_time(d._id)
                  /\ edited \in Matching(notes', hash_code(last'.request.edit_code),
                                         last'.request.unique_name) ]_vars

\* an edit succeeded and the note it changed is stored under its name and
\* hash with the new title
C16_Witness ==
    /\ last.request.op = "edit"
    /\ last.response.status = 200
    /\ \E d \in notes : /\ Str(d._id) = last.response.body.id
                        /\ d.title = last.request.title
                        /\ d.unique_name = last.request.unique_name
                        /\ d.edit_code = hash_code(last.request.edit_code)

-----------------------------------------------------------------------------
(* generate_unique_name with its while loop taken one iteration at a time,
   on the collections of InitGen.  The loop has no await in it: once entered
   it runs until its test fails. *)

\* the test of the while loop
suffix_loop_test(existing_names, unique_name) ==
    Lower(unique_name) \in { Lower(name) : name \in existing_names }

\* a loop body that leaves the counter as it is
suffix_loop_body_no_increment(base_slug, counter) ==
    [counter |-> counter,
     unique_name |-> base_slug \o <<"-">> \o Str(counter + 1)]

\* the body of the while loop: counter += 1 and the next candidate
suffix_loop_body(base_slug, counter) ==
    [counter |-> counter + 1,
     unique_name |-> base_slug \o <<"-">> \o Str(counter + 1)]

\* the locals of generate_unique_name inside a create_note that has passed
\* validation and moderation
LoopRequest(note_data, code, base_slug, existing_names, counter, unique_name) ==
    [k \in DOMAIN NoRequest \cup {"existing_names", "counter"} |->
        IF k = "op" THEN "create"
        ELSE IF k = "title" THEN note_data.title
        ELSE IF k = "content" THEN note_data.content
        ELSE IF k = "edit_code" THEN code
        ELSE IF k = "moderation" THEN "keep"
        ELSE IF k = "base_slug" THEN base_slug
        ELSE IF k = "existing_names" THEN existing_names
        ELSE IF k = "counter" THEN counter
        ELSE IF k = "unique_name" THEN unique_name
        ELSE NoRequest[k]]

\* create_note up to the statement before the while loop: the words, the
\* snapshot, counter = 0 and unique_name = base_slug
generate_unique_name_begin(w, cap) ==
    /\ pc[w] = "idle"
    /\ nextId <= cap
    /\ \E text \in Texts, code \in EditCodes, draw \in WordDraws :
        LET body == [title |-> text.title, content |-> text.content,
                     edit_code |-> code, unique_name |-> NoneName]
            base_slug == base_slug_of(draw[1], draw[2])
        IN  /\ NoteValid(body)
            /\ pc' = [pc EXCEPT ![w] = "loop"]
            /\ req' = [req EXCEPT ![w] =
                  LoopRequest(NoteDump(body), code, base_slug,
                              distinct(notes, base_slug), 0, base_slug)]
    /\ UNCHANGED <<notes, nextId, last, deleted>>

\* one iteration of the while loop
generate_unique_name_iterate(w) ==
    /\ pc[w] = "loop"
    /\ suffix_loop_test(req[w].existing_names, req[w].unique_name)
    /\ LET next == suffix_loop_body(req[w].base_slug, req[w].counter)
       IN  req' = [req EXCEPT ![w].counter = next.counter,
                              ![w].unique_name = next.unique_name]
    /\ UNCHANGED <<notes, nextId, pc, last, deleted>>

\* the test fails: return unique_name
generate_unique_name_return(w) ==
    /\ pc[w] = "loop"
    /\ ~suffix_loop_test(req[w].existing_names, req[w].unique_name)
    /\ pc' = [pc EXCEPT ![w] = "insert"]
    /\ UNCHANGED <<notes, nextId, req, last, deleted>>

NextLoop ==
    \/ generate_unique_name_begin(1, Cardinality(GenIds) + GenCreates)
    \/ generate_unique_name_iterate(1)
    \/ generate_unique_name_return(1)
    \/ create_document_insert(1)
    \/ create_document_find(1)

SpecLoop ==
    /\ InitGen
    /\ [][NextLoop]_vars
    /\ WF_vars(generate_unique_name_iterate(1))
    /\ WF_vars(generate_unique_name_return(1))

\* C17: the while loop of generate_unique_name terminates on every snapshot:
\* each iteration increments the counter by one and leaves the snapshot as
\* it is, the counter never exceeds the number of names in the snapshot (at
\* most |existing| + 1 candidates are tried), the loop is left, and the name
\* it is left with is the one generate_unique_name returns.
C17_LoopTerminates ==
    /\ [](\A w \in Workers :
            pc[w] = "loop" =>
                req[w].counter <= Cardinality(req[w].existing_names))
    /\ [][ \A w \in Workers :
             (pc[w] = "loop" /\ pc'[w] = "loop" /\ req'[w] # req[w]) =>
                /\ req'[w].counter = req[w].counter + 1
                /\ req'[w].existing_names = req[w].existing_names ]_vars
    /\ [][ \A w \in Workers :
             (pc[w] = "loop" /\ pc'[w] = "insert") =>
                req'[w].unique_name =
                    suffix_loop(req[w].base_slug, req[w].existing_names, 0,
                                req[w].base_slug) ]_vars
    /\ \A w \in Workers : (pc[w] = "loop") ~> (pc[w] = "insert")

\* the loop was left after as many iterations as the snapshot has names
C17_Witness ==
    \E w \in Workers :
        /\ pc[w] = "insert"
        /\ "counter" \in DOMAIN req[w]
        /\ req[w].counter = MaxSuffix + 1
        /\ req[w].counter = Cardinality(req[w].existing_names)

\* the ids of the documents that differ between two collections
Touched(before, after) == Ids((before \ after) \cup (after \ before))

\* C18: every step touches at most one document.  insert_one adds exactly
\* one document under a fresh id and changes none; a successful edit changes
\* one document in place; a successful delete removes exactly one document,
\* whose unique_name and hash match the request; a failed edit or delete,
\* get, list and every other step of a handler leave the store as it is.
C18_Frame ==
    [][ /\ Cardinality(Touched(notes, notes')) <= 1
        /\ \A w \in Workers :
              IF pc[w] = "insert" /\ pc'[w] = "find"
              THEN \E doc \in notes' :
                      /\ doc._id \notin Ids(notes)
                      /\ notes' = notes \cup {doc}
                      /\ Cardinality(notes') = Cardinality(notes) + 1
              ELSE pc'[w] # pc[w] => notes' = notes
        /\ ( /\ pc' = pc
             /\ last' # last
             /\ last'.request.op = "edit" )
           => IF last'.response.status = 200
              THEN \E d \in notes, e \in notes' :
                      /\ e._id = d._id
                      /\ notes' = (notes \ {d}) \cup {e}
                      /\ Cardinality(notes') = Cardinality(notes)
              ELSE notes' = notes
        /\ DeleteStep
           => IF last'.response.status = 200
              THEN \E d \in notes :
                      /\ d.unique_name = last'.request.unique_name
                      /\ d.edit_code = hash_code(last'.request.edit_code)
                      /\ notes' = notes \ {d}
              ELSE notes' = notes
        /\ (last' # last /\ last'.request.op \in {"get", "list"})
           => notes' = notes ]_vars

\* a delete removed a note and left another one stored
C18_Witness ==
    /\ last.request.op = "delete"
    /\ last.response.status = 200
    /\ notes # {}
    /\ \E t \in deleted : \A d \in notes : d._id # t[1]

-----------------------------------------------------------------------------
(* Bodies that carry a unique_name of their own: Note and DeleteNote both
   have the field. *)

\* the unique_name of a body: absent, or the name of another note
BodyNames == { NoneName, <<"a","r","k","-","a","r","k","-","1">> }

NextBody ==
    \/ create_note_with(1, MaxDocs, WordDraws, BodyNames)
    \/ create_document_insert(1)
    \/ create_document_find(1)
    \/ edit_note_with(BodyNames)
    \/ delete_note_with(BodyNames)
    \/ get_note

SpecBody == Init /\ [][NextBody]_vars

\* C19: whatever unique_name the body carries, a create stores the name
\* generate_unique_name returned for its snapshot, and an edit or delete
\* changes or removes only a note stored under the unique_name of the path,
\* which is also the name the edited note has afterwards.
C19_BodyNameIgnored ==
    [][ /\ \A w \in Workers :
              /\ (pc[w] = "idle" /\ pc'[w] = "insert") =>
                    req'[w].unique_name =
                        suffix_loop(req'[w].base_slug,
                                    distinct(notes, req'[w].base_slug), 0,
                                    req'[w].base_slug)
              /\ (pc[w] = "insert" /\ pc'[w] = "find") =>
                    \A doc \in notes' \ notes :
                        doc.unique_name = req[w].unique_name
        /\ ( /\ pc' = pc
             /\ last'.request.op \in {"edit", "delete"} )
           => /\ \A d \in notes \ notes' :
                    d.unique_name = last'.request.unique_name
              /\ \A e \in notes' \ notes :
                    e.unique_name = last'.request.unique_name ]_vars

\* an edit whose body named another stored note changed the note of its path
C19_Witness ==
    /\ last.request.op = "edit"
    /\ last.response.status = 200
    /\ last.request.body_unique_name # NoneName
    /\ last.request.body_unique_name # last.request.unique_name
    /\ \E d \in notes : d.unique_name = last.request.body_unique_name
    /\ \E d \in notes : /\ d.unique_name = last.request.unique_name
                        /\ d.title = last.request.title
                        /\ Str(d._id) = last.response.body.id
====
